---- MODULE Spec2Model ----
(***************************************************************************)
(* Wall-clock profile event source (ThreadProfileEventSource) of           *)
(* src/src/profile-eventsource-timerthread.cc.                             *)
(*                                                                         *)
(* Processes: the handler (the control plane: RegisteredCallback,          *)
(* UnregisteredCallback, Reset, EnableEvents, DisableEvents, serialised by *)
(* the caller), the worker threads (RegisterThread, GetTicksSinceLastCall  *)
(* in the SIGPROF handler or called directly, thread exit) and the         *)
(* timekeeper tasks created by pthread_create (TimerThreadMain).           *)
(*                                                                         *)
(* Atomic32 values are held as the integer in MinInt32..MaxInt32; a        *)
(* uint32_t is held as the int32 with the same bit pattern, so that the    *)
(* values 0..MaxInt32 stand for themselves and a negative number n stands  *)
(* for n + 2^32.                                                           *)
(*                                                                         *)
(* thread_stop_ and events_enabled_ are plain bools written by the handler *)
(* and read by the timekeeper without synchronisation.  Each read is one   *)
(* step that sees the value the flag has at that step; the loop body calls *)
(* into the atomics, the lock and usleep, so the flag is read again in     *)
(* every iteration.                                                        *)
(*                                                                         *)
(* The variables from ctl_pc on record the callers and the history the     *)
(* properties speak of; no action of the event source reads them.          *)
(***************************************************************************)
EXTENDS Integers, Sequences, FiniteSets, TLC

\* ---------------------------------------------------------------- bounds
MaxTicks     == 2   \* increments of current_tick_ in one run
MaxRegs      == 2   \* entries the registry may hold
MaxCallbacks == 2   \* callbacks the handler may have registered
MaxTasks     == 2   \* threads pthread_create can provide for TimerThreadMain
MaxTicksE2E  == 4   \* increments of current_tick_ in the end-to-end run

\* ------------------------------------------------------- program constants
MaxInt32 == 2147483647
MinInt32 == (-2147483647) - 1

Workers == {"w1", "w2"}      \* pthread_t of the worker threads
Tasks   == 1..MaxTasks       \* pthread_t of timekeeper tasks; 0 is "no thread"
NoOwner == "free"            \* lock_ not held
TimerOwner == "timer"        \* lock_ held by TimerThreadMain

\* Values of the static current_tick_ when an event source is constructed:
\* the counter is a static, so a later instance of the class starts with the
\* counter where the earlier ones left it.
TickStarts == {0, 1, MaxInt32 - 1, -2}

\* Outcomes of the calls StartTimerThread makes into the system: all succeed,
\* one of the scheduling calls fails, or pthread_create fails
OsOutcomes == {"ok", "sched", "create"}

VARIABLES
  thread_,          \* pthread_t of the timekeeper, 0 when none
  thread_stop_,     \* bool
  events_enabled_,  \* bool
  current_tick_,    \* static timer_count_t
  thread_last_tick, \* __thread timer_count_t, one per worker
  threads_,         \* list<pthread_t>
  lock_,            \* SpinLock guarding threads_: its holder
  fatal,            \* message of the RAW_LOG(FATAL) that ended the process, "" if none
  tpc,              \* per task: position in TimerThreadMain
  it,               \* per task: ThreadListIterator, an index into threads_
  wstate,           \* per worker: "run" or "exited"
  wpc,              \* per worker: "idle", or "locked" inside RegisterThread
  pending,          \* per worker: SIGPROF pending
  ctl_pc,           \* handler: "idle", or "joining" inside pthread_join
  callback_count,   \* callbacks the handler holds: 0 at the start, +1 per
                    \* RegisteredCallback, -1 per UnregisteredCallback; kept
                    \* at 0 once seq_ok is false
  seq_ok,           \* every count passed so far was callback_count, and
                    \* Reset was called with no callback held only
  after_reset,      \* "in_progress" inside Reset; once it returned "idle" or
                    \* "running" (what it found); "restarted" when the call
                    \* after it started a timekeeper, until that one ticks;
                    \* else "no"
  disabled,         \* DisableEvents was called with the timekeeper running
                    \* and EnableEvents has not been called since
  nticks,           \* increments of current_tick_ made in this run
  ret,              \* value the latest GetTicksSinceLastCall returned
  read_at,          \* per worker: nticks when its last call read the counter,
                    \* -1 before its first call
  last_call,        \* the latest GetTicksSinceLastCall: who made it, whether it
                    \* was that thread's first, and the increments of the
                    \* counter since that thread's call before it
  registered,       \* workers that have called RegisterThread
  dead_at_start,    \* workers that had exited when the running traversal began
  snap,             \* the registry as the running traversal found it
  tried,            \* the targets of the delivery attempts of the running
                    \* traversal, in the order they were made
  sum_ret           \* per worker: sum of the values GetTicksSinceLastCall
                    \* returned to its notification handler, kept in the
                    \* end-to-end run (SpecE2E) only

ctlVars    == <<thread_, thread_stop_, events_enabled_, fatal>>
tickVars   == <<thread_last_tick, ret, read_at, last_call, sum_ret>>
travVars   == <<dead_at_start, snap, tried>>
timerVars  == <<tpc, it, travVars>>
workerVars == <<wstate, wpc, pending>>
envVars    == <<ctl_pc, callback_count, seq_ok, after_reset, disabled>>
vars == <<thread_, thread_stop_, events_enabled_, current_tick_,
          thread_last_tick, threads_, lock_, fatal, tpc, it, wstate, wpc,
          pending, ctl_pc, callback_count, seq_ok, after_reset, disabled,
          nticks, ret, read_at, last_call, registered, dead_at_start, snap,
          tried, sum_ret>>

Range(s) == {s[i] : i \in 1..Len(s)}

\* erase(it): the list without its element at position i
Erase(s, i) == SubSeq(s, 1, i - 1) \o SubSeq(s, i + 1, Len(s))

\* Variant: the counter is advanced by two
Inc32_two(x) == IF x >= MaxInt32 - 1 THEN MinInt32 + (x - (MaxInt32 - 1)) ELSE x + 2

\* Barrier_AtomicIncrement on an Atomic32: two's complement wrap
Inc32(x) == IF x = MaxInt32 THEN MinInt32 ELSE x + 1

Alive == fatal = ""

\* ------------------------------------------------------------------ Init
\* The constructor: thread_(0), thread_stop_(false), events_enabled_(false);
\* statics as the process has them; no worker has queried or registered.
Constructed ==
  /\ thread_ = 0
  /\ thread_stop_ = FALSE
  /\ events_enabled_ = FALSE
  /\ thread_last_tick = [w \in Workers |-> 0]
  /\ threads_ = << >>
  /\ lock_ = NoOwner
  /\ fatal = ""
  /\ tpc = [i \in Tasks |-> "none"]
  /\ it = [i \in Tasks |-> 1]
  /\ wstate = [w \in Workers |-> "run"]
  /\ wpc = [w \in Workers |-> "idle"]
  /\ pending = [w \in Workers |-> FALSE]
  /\ ctl_pc = "idle"
  /\ callback_count = 0
  /\ seq_ok = TRUE
  /\ after_reset = "no"
  /\ disabled = FALSE
  /\ nticks = 0
  /\ ret = 0
  /\ read_at = [w \in Workers |-> -1]
  /\ last_call = [who |-> "none", first |-> FALSE, since |-> 0]
  /\ registered = {}
  /\ dead_at_start = {}
  /\ snap = << >>
  /\ tried = << >>
  /\ sum_ret = [w \in Workers |-> 0]

\* The first event source of the process: current_tick_ = 0
Init == Constructed /\ current_tick_ = 0

\* An event source constructed with the static counter at one of TickStarts
InitTicks == Constructed /\ current_tick_ \in TickStarts

\* ------------------------------------------------- EnableEvents / DisableEvents
EnableEvents ==
  /\ Alive /\ ctl_pc = "idle"
  /\ events_enabled_' = TRUE
  /\ disabled' = FALSE
  /\ after_reset' = "no"
  /\ UNCHANGED <<thread_, thread_stop_, fatal, current_tick_, threads_, lock_,
                 tickVars, timerVars, workerVars, ctl_pc, callback_count,
                 seq_ok, nticks, registered>>

\* Variant: events are suppressed by asking the timekeeper to stop
DisableEvents_teardown ==
  /\ Alive /\ ctl_pc = "idle"
  /\ events_enabled_' = TRUE
  /\ thread_stop_' = TRUE
  /\ disabled' = (thread_ # 0)
  /\ after_reset' = "no"
  /\ UNCHANGED <<thread_, fatal, current_tick_, threads_, lock_,
                 tickVars, timerVars, workerVars, ctl_pc, callback_count,
                 seq_ok, nticks, registered>>

DisableEvents ==
  /\ Alive /\ ctl_pc = "idle"
  /\ events_enabled_' = TRUE
  /\ disabled' = (thread_ # 0)
  /\ after_reset' = "no"
  /\ UNCHANGED <<thread_, thread_stop_, fatal, current_tick_, threads_, lock_,
                 tickVars, timerVars, workerVars, ctl_pc, callback_count,
                 seq_ok, nticks, registered>>

\* ------------------------------------------------------- StartTimerThread
FreeTasks == {i \in Tasks : tpc[i] = "none"}
NewTask == CHOOSE i \in FreeTasks : \A j \in FreeTasks : i <= j

\* Variant: the running timer is not looked at
AlreadyRunning_never == FALSE

\* if (thread_)
AlreadyRunning == thread_ # 0

\* Variant: thread_stop_ is left as the last stop set it
StartTimerThread_staleStop(os) ==
  IF AlreadyRunning
  THEN /\ fatal' = "Timer already running"
       /\ UNCHANGED <<thread_, thread_stop_, tpc, it>>
  ELSE IF os = "sched"
  THEN /\ fatal' = "Cannot set up timer thread attributes"
       /\ UNCHANGED <<thread_, thread_stop_, tpc, it>>
  ELSE IF os = "create" \/ FreeTasks = {}
  THEN /\ fatal' = "Cannot create timer thread"
       /\ UNCHANGED <<thread_, thread_stop_, tpc, it>>
  ELSE /\ tpc' = [tpc EXCEPT ![NewTask] = "check"]
       /\ it' = [it EXCEPT ![NewTask] = 1]
       /\ thread_' = NewTask
       /\ fatal' = ""
       /\ UNCHANGED thread_stop_

\* Primes thread_, thread_stop_, fatal, tpc, it.  os is what the system calls
\* return (lines 71-90 fail before thread_stop_ is written, pthread_create
\* after); pthread_create also fails when no further thread can be had.
\* RAW_LOG(FATAL) ends the process: no action is enabled once fatal is set.
StartTimerThread(os) ==
  IF AlreadyRunning
  THEN /\ fatal' = "Timer already running"
       /\ UNCHANGED <<thread_, thread_stop_, tpc, it>>
  ELSE IF os = "sched"
  THEN /\ fatal' = "Cannot set up timer thread attributes"
       /\ UNCHANGED <<thread_, thread_stop_, tpc, it>>
  ELSE IF os = "create" \/ FreeTasks = {}
  THEN /\ fatal' = "Cannot create timer thread"
       /\ thread_stop_' = FALSE
       /\ UNCHANGED <<thread_, tpc, it>>
  ELSE /\ thread_stop_' = FALSE
       /\ tpc' = [tpc EXCEPT ![NewTask] = "check"]
       /\ it' = [it EXCEPT ![NewTask] = 1]
       /\ thread_' = NewTask
       /\ fatal' = ""

\* -------------------------------------------------------- StopTimerThread
\* Variant: the task is joined without being told to stop
StopTimerThread_noFlag ==
  IF thread_ # 0
  THEN /\ thread_stop_' = thread_stop_
       /\ ctl_pc' = "joining"
  ELSE UNCHANGED <<thread_stop_, ctl_pc>>

\* Up to the pthread_join: primes thread_stop_ and ctl_pc.
StopTimerThread ==
  IF thread_ # 0
  THEN /\ thread_stop_' = TRUE
       /\ ctl_pc' = "joining"
  ELSE UNCHANGED <<thread_stop_, ctl_pc>>

\* pthread_join returns once the task has returned from TimerThreadMain;
\* then thread_ = 0 and the call that stopped the timer returns.
JoinTimerThread ==
  /\ Alive /\ ctl_pc = "joining"
  /\ tpc[thread_] = "exited"
  /\ tpc' = [tpc EXCEPT ![thread_] = "none"]
  /\ thread_' = 0
  /\ ctl_pc' = "idle"
  /\ after_reset' = IF after_reset = "in_progress" THEN "running" ELSE after_reset
  /\ UNCHANGED <<thread_stop_, events_enabled_, fatal, current_tick_, threads_,
                 lock_, tickVars, it, travVars, workerVars, callback_count,
                 seq_ok, disabled, nticks, registered>>

\* ------------------------------------ RegisteredCallback / UnregisteredCallback
\* if (new_callback_count == 1)
StartsOn(n) == n = 1

\* Variant: the timer is stopped when one callback is left
StopsOn_one(n) == n = 1

\* if (new_callback_count == 0)
StopsOn(n) == n = 0

RegisteredCallback(n) ==
  /\ Alive /\ ctl_pc = "idle"
  /\ seq_ok => callback_count < MaxCallbacks
  /\ seq_ok' = (seq_ok /\ n = callback_count + 1)
  /\ callback_count' = IF seq_ok' THEN callback_count + 1 ELSE 0
  /\ IF StartsOn(n)
     THEN \E os \in OsOutcomes : StartTimerThread(os)
     ELSE UNCHANGED <<thread_, thread_stop_, fatal, tpc, it>>
  /\ after_reset' = IF after_reset = "running" /\ thread_ = 0 /\ thread_' # 0
                    THEN "restarted" ELSE "no"
  /\ UNCHANGED <<events_enabled_, current_tick_, threads_, lock_, tickVars,
                 travVars, workerVars, ctl_pc, disabled, nticks,
                 registered>>

UnregisteredCallback(n) ==
  /\ Alive /\ ctl_pc = "idle"
  /\ seq_ok => callback_count > 0
  /\ seq_ok' = (seq_ok /\ n = callback_count - 1)
  /\ callback_count' = IF seq_ok' THEN callback_count - 1 ELSE 0
  /\ after_reset' = "no"
  /\ IF StopsOn(n)
     THEN StopTimerThread
     ELSE UNCHANGED <<thread_stop_, ctl_pc>>
  /\ UNCHANGED <<thread_, events_enabled_, fatal, current_tick_, threads_, lock_,
                 tickVars, timerVars, workerVars, disabled, nticks,
                 registered>>

\* ------------------------------------------------------------------ Reset
\* Variant: the registry is emptied as well
Reset_clearsRegistry ==
  /\ Alive /\ ctl_pc = "idle"
  /\ StopTimerThread
  /\ threads_' = << >>
  /\ after_reset' = IF thread_ # 0 THEN "in_progress" ELSE "idle"
  /\ seq_ok' = (seq_ok /\ callback_count = 0)
  /\ callback_count' = 0
  /\ UNCHANGED <<thread_, events_enabled_, fatal, current_tick_, lock_,
                 tickVars, timerVars, workerVars, disabled,
                 nticks, registered>>

Reset ==
  /\ Alive /\ ctl_pc = "idle"
  /\ StopTimerThread
  /\ after_reset' = IF thread_ # 0 THEN "in_progress" ELSE "idle"
  /\ seq_ok' = (seq_ok /\ callback_count = 0)
  /\ callback_count' = 0
  /\ UNCHANGED <<thread_, events_enabled_, fatal, current_tick_, threads_, lock_,
                 tickVars, timerVars, workerVars, disabled,
                 nticks, registered>>

\* -------------------------------------------------------- TimerThreadMain
\* while (!instance->thread_stop_)
TimerCheckStop(i) ==
  /\ Alive /\ tpc[i] = "check"
  /\ tpc' = [tpc EXCEPT ![i] = IF thread_stop_ THEN "exited" ELSE "tick"]
  /\ UNCHANGED <<ctlVars, current_tick_, threads_, lock_, tickVars, it,
                 travVars, workerVars, envVars, nticks, registered>>

\* Barrier_AtomicIncrement(&current_tick_, 1), in a run of at most max
\* increments
TimerTickUpTo(i, max) ==
  /\ Alive /\ tpc[i] = "tick"
  /\ nticks < max
  /\ current_tick_' = Inc32(current_tick_)
  /\ nticks' = nticks + 1
  /\ tpc' = [tpc EXCEPT ![i] = "gate"]
  /\ after_reset' = IF after_reset = "restarted" THEN "no" ELSE after_reset
  /\ UNCHANGED <<ctlVars, threads_, lock_, tickVars, it, travVars,
                 workerVars, ctl_pc, callback_count, seq_ok, disabled,
                 registered>>

TimerTick(i) == TimerTickUpTo(i, MaxTicks)

\* if (instance->events_enabled_); when it is false, usleep(sleep_us) and the
\* next iteration
TimerGate(i) ==
  /\ Alive /\ tpc[i] = "gate"
  /\ tpc' = [tpc EXCEPT ![i] = IF events_enabled_ THEN "acquire" ELSE "check"]
  /\ UNCHANGED <<ctlVars, current_tick_, threads_, lock_, tickVars, it,
                 travVars, workerVars, envVars, nticks, registered>>

\* SpinLockHolder sl(&instance->lock_); it = threads.begin()
TimerAcquire(i) ==
  /\ Alive /\ tpc[i] = "acquire"
  /\ lock_ = NoOwner
  /\ lock_' = TimerOwner
  /\ it' = [it EXCEPT ![i] = 1]
  /\ dead_at_start' = {w \in Workers : wstate[w] = "exited"}
  /\ snap' = threads_
  /\ tried' = << >>
  /\ tpc' = [tpc EXCEPT ![i] = "deliver"]
  /\ UNCHANGED <<ctlVars, current_tick_, threads_, tickVars, workerVars,
                 envVars, nticks, registered>>

\* What pthread_kill(target, SIGPROF) can return: ESRCH for a thread that has
\* finished; for a live thread 0, or an error the loop only logs.
KillOutcomes(target) ==
  IF wstate[target] = "exited" THEN {"ESRCH"} ELSE {"ok", "EINVAL", "other"}

\* Variant: the iterator is advanced after the erase as well
AfterErase_skip(pos) == pos + 1

\* it = threads.erase(it): the iterator stays on the position, which now holds
\* the element that followed
AfterErase(pos) == pos

\* Variant: a delivery error ends the traversal
NextEntry_abort(err, pos, len) == IF err = "ok" THEN pos + 1 ELSE len + 1

\* err == 0, or the break out of the switch after the warning: ++it
NextEntry(err, pos, len) == pos + 1

\* One pass of the for loop body, it != threads.end()
TimerDeliver(i) ==
  /\ Alive /\ tpc[i] = "deliver"
  /\ it[i] <= Len(threads_)
  /\ \E err \in KillOutcomes(threads_[it[i]]) :
       /\ pending' = IF err = "ok"
                     THEN [pending EXCEPT ![threads_[it[i]]] = TRUE]
                     ELSE pending
       /\ IF err = "ESRCH"
          THEN /\ threads_' = Erase(threads_, it[i])
               /\ it' = [it EXCEPT ![i] = AfterErase(it[i])]
          ELSE /\ threads_' = threads_
               /\ it' = [it EXCEPT ![i] = NextEntry(err, it[i], Len(threads_))]
  /\ tried' = Append(tried, threads_[it[i]])
  /\ UNCHANGED <<ctlVars, current_tick_, lock_, tickVars, tpc, dead_at_start, snap,
                 wstate, wpc, envVars, nticks, registered>>

\* Variant: the timekeeper exits when the traversal leaves no thread
AfterTraversal_exitWhenEmpty(reg) == IF reg = << >> THEN "exited" ELSE "check"

\* Where the task goes when the for loop is over: to the usleep and the next
\* test of the stop flag, whatever is left in the registry
AfterTraversal(reg) == "check"

\* Variant: the lock holder lives to the end of the loop body, so the lock is
\* held over the usleep and taken again in the next iteration
TimerRelease_keepsLock(i) ==
  /\ Alive /\ tpc[i] = "deliver"
  /\ it[i] > Len(threads_)
  /\ lock_' = lock_
  /\ it' = [it EXCEPT ![i] = 1]
  /\ dead_at_start' = {}
  /\ snap' = << >>
  /\ tried' = << >>
  /\ tpc' = [tpc EXCEPT ![i] = "check"]
  /\ UNCHANGED <<ctlVars, current_tick_, threads_, tickVars, workerVars,
                 envVars, nticks, registered>>

\* it == threads.end(): the lock holder goes out of scope, usleep(sleep_us)
\* and the next iteration
TimerRelease(i) ==
  /\ Alive /\ tpc[i] = "deliver"
  /\ it[i] > Len(threads_)
  /\ lock_' = NoOwner
  /\ it' = [it EXCEPT ![i] = 1]
  /\ dead_at_start' = {}
  /\ snap' = << >>
  /\ tried' = << >>
  /\ tpc' = [tpc EXCEPT ![i] = AfterTraversal(threads_)]
  /\ UNCHANGED <<ctlVars, current_tick_, threads_, tickVars, workerVars,
                 envVars, nticks, registered>>

TimerThreadMain(i) ==
  \/ TimerCheckStop(i)
  \/ TimerTick(i)
  \/ TimerGate(i)
  \/ TimerAcquire(i)
  \/ TimerDeliver(i)
  \/ TimerRelease(i)

\* --------------------------------------------------------- RegisterThread
\* SpinLockHolder sl(&lock_)
RegisterLock(w) ==
  /\ Alive /\ wstate[w] = "run" /\ wpc[w] = "idle"
  /\ Len(threads_) < MaxRegs
  /\ lock_ = NoOwner
  /\ lock_' = w
  /\ wpc' = [wpc EXCEPT ![w] = "locked"]
  /\ UNCHANGED <<ctlVars, current_tick_, threads_, tickVars, timerVars, wstate,
                 pending, envVars, nticks, registered>>

\* threads_.push_back(pthread_self()); the lock holder goes out of scope
RegisterPush(w) ==
  /\ Alive /\ wstate[w] = "run" /\ wpc[w] = "locked"
  /\ threads_' = Append(threads_, w)
  /\ lock_' = NoOwner
  /\ wpc' = [wpc EXCEPT ![w] = "idle"]
  /\ registered' = registered \cup {w}
  /\ UNCHANGED <<ctlVars, current_tick_, tickVars, timerVars, wstate, pending,
                 envVars, nticks>>

RegisterThread(w) == RegisterLock(w) \/ RegisterPush(w)

\* The worker's thread function returns (tests/profiler/test.cc thread_start):
\* nothing takes it out of the registry.
WorkerExit(w) ==
  /\ Alive /\ wstate[w] = "run" /\ wpc[w] = "idle"
  /\ wstate' = [wstate EXCEPT ![w] = "exited"]
  /\ pending' = [pending EXCEPT ![w] = FALSE]
  /\ UNCHANGED <<ctlVars, current_tick_, threads_, lock_, tickVars, timerVars,
                 wpc, envVars, nticks, registered>>

\* -------------------------------------------------- GetTicksSinceLastCall
\* a - b on timer_count_t for a >= b, converted to uint32_t.  When the
\* difference does not fit an int32 the subtraction overflows, which is
\* undefined: the build either wraps (two's complement) or traps.
SubOutcomes(a, b) ==
  IF b < 0 /\ a > MaxInt32 + b
  THEN {[trap |-> FALSE, ticks |-> (a - MaxInt32 - 1) + (MinInt32 - b)],
        [trap |-> TRUE, ticks |-> 0]}
  ELSE {[trap |-> FALSE, ticks |-> a - b]}

\* Variant: the difference is computed on the first call too
EverQueried_always(thread_time) == TRUE

\* if (thread_time != 0)
EverQueried(thread_time) == thread_time # 0

\* The outcomes of the computation of ticks
TicksSinceLastCall(system_time, thread_time) ==
  IF EverQueried(thread_time)
  THEN IF system_time > thread_time
       THEN SubOutcomes(system_time, thread_time)
       ELSE SubOutcomes(thread_time, system_time)
  ELSE {[trap |-> FALSE, ticks |-> 1]}

\* Variant: the call takes the registry lock for its reads and its store
CallGetTicks_locked(w) ==
  /\ lock_ = NoOwner
  /\ \E o \in TicksSinceLastCall(current_tick_, thread_last_tick[w]) :
       IF o.trap
       THEN /\ fatal' = "signed overflow trap"
            /\ UNCHANGED <<thread_last_tick, ret, read_at, last_call>>
       ELSE /\ fatal' = fatal
            /\ thread_last_tick' = [thread_last_tick EXCEPT ![w] = current_tick_]
            /\ ret' = o.ticks
            /\ read_at' = [read_at EXCEPT ![w] = nticks]
            /\ last_call' = [who |-> w, first |-> read_at[w] = -1,
                             since |-> IF read_at[w] = -1 THEN 0 ELSE nticks - read_at[w]]

\* The body of the call on worker w: primes fatal, thread_last_tick, ret,
\* read_at and last_call
CallGetTicks(w) ==
  \E o \in TicksSinceLastCall(current_tick_, thread_last_tick[w]) :
    IF o.trap
    THEN /\ fatal' = "signed overflow trap"
         /\ UNCHANGED <<thread_last_tick, ret, read_at, last_call>>
    ELSE /\ fatal' = fatal
         /\ thread_last_tick' = [thread_last_tick EXCEPT ![w] = current_tick_]
         /\ ret' = o.ticks
         /\ read_at' = [read_at EXCEPT ![w] = nticks]
         /\ last_call' = [who |-> w, first |-> read_at[w] = -1,
                          since |-> IF read_at[w] = -1 THEN 0 ELSE nticks - read_at[w]]

\* Called by the thread itself, outside a notification (SpecTicks)
GetTicksSinceLastCall(w) ==
  /\ Alive /\ wstate[w] = "run"
  /\ CallGetTicks(w)
  /\ UNCHANGED <<thread_, thread_stop_, events_enabled_, current_tick_, threads_,
                 lock_, timerVars, workerVars, envVars, nticks, registered,
                 sum_ret>>

\* SIGPROF is taken by the worker, wherever it is in its own code, and the
\* handler calls GetTicksSinceLastCall
SignalHandler(w) ==
  /\ Alive /\ wstate[w] = "run"
  /\ pending[w]
  /\ pending' = [pending EXCEPT ![w] = FALSE]
  /\ CallGetTicks(w)
  /\ UNCHANGED <<thread_, thread_stop_, events_enabled_, current_tick_, threads_,
                 lock_, timerVars, wstate, wpc, envVars, nticks, registered,
                 sum_ret>>

\* The same step, the value returned added to the worker's sum
SignalHandlerSummed(w) ==
  /\ Alive /\ wstate[w] = "run"
  /\ pending[w]
  /\ pending' = [pending EXCEPT ![w] = FALSE]
  /\ CallGetTicks(w)
  /\ sum_ret' = IF fatal' = fatal
                THEN [sum_ret EXCEPT ![w] = sum_ret[w] + ret']
                ELSE sum_ret
  /\ UNCHANGED <<thread_, thread_stop_, events_enabled_, current_tick_, threads_,
                 lock_, timerVars, wstate, wpc, envVars, nticks, registered>>

\* ------------------------------------------------------------------- Next
Next ==
  \/ EnableEvents
  \/ DisableEvents
  \/ \E n \in 0..MaxCallbacks : RegisteredCallback(n)
  \/ \E n \in 0..MaxCallbacks : UnregisteredCallback(n)
  \/ Reset
  \/ JoinTimerThread
  \/ \E i \in Tasks : TimerThreadMain(i)
  \/ \E w \in Workers : RegisterThread(w)
  \/ \E w \in Workers : WorkerExit(w)
  \/ \E w \in Workers : SignalHandler(w)

Spec == Init /\ [][Next]_vars

\* Tick accounting on its own: the timekeeper is started and ticks with
\* events disabled, the workers query
NextTicks ==
  \/ \E n \in {1} : RegisteredCallback(n)
  \/ \E i \in Tasks : TimerCheckStop(i) \/ TimerTick(i) \/ TimerGate(i)
  \/ \E w \in Workers : GetTicksSinceLastCall(w)

SpecTicks == InitTicks /\ [][NextTicks]_vars

\* Fair scheduling: a thread that can take its next step takes it.  Every
\* step of TimerThreadMain but the acquisition of the lock is enabled until
\* it is taken; the spinning timekeeper gets the lock if it is free again and
\* again.  A worker inside RegisterThread goes on to release the lock, and
\* pthread_join returns once the task has exited.
Fairness ==
  /\ \A i \in Tasks : WF_vars(TimerThreadMain(i)) /\ SF_vars(TimerAcquire(i))
  /\ \A w \in Workers : WF_vars(RegisterPush(w))
  /\ WF_vars(JoinTimerThread)

\* The runs the scheduling is asked about: the handler's calls with the
\* counts that start and stop the timekeeper (with any other count the
\* callbacks do nothing), the timekeeper, and the workers registering and
\* exiting.  The workers' notification handlers are left out: the call they
\* make takes no lock and writes the caller's thread_last_tick only.
NextFair ==
  \/ EnableEvents
  \/ DisableEvents
  \/ \E n \in {1} : RegisteredCallback(n)
  \/ \E n \in {0} : UnregisteredCallback(n)
  \/ Reset
  \/ JoinTimerThread
  \/ \E i \in Tasks : TimerThreadMain(i)
  \/ \E w \in Workers : RegisterThread(w)
  \/ \E w \in Workers : WorkerExit(w)

SpecFair == Init /\ [][NextFair]_vars /\ Fairness

\* The runs in which EnableEvents is never called
NextNoEnable ==
  \/ DisableEvents
  \/ \E n \in 0..MaxCallbacks : RegisteredCallback(n)
  \/ \E n \in 0..MaxCallbacks : UnregisteredCallback(n)
  \/ Reset
  \/ JoinTimerThread
  \/ \E i \in Tasks : TimerThreadMain(i)
  \/ \E w \in Workers : RegisterThread(w)
  \/ \E w \in Workers : WorkerExit(w)
  \/ \E w \in Workers : SignalHandler(w)

SpecNoEnable == Init /\ [][NextNoEnable]_vars

\* The end-to-end run: the event source as constructed, one worker registers,
\* the handler enables events and registers its first callback; the
\* timekeeper runs for up to MaxTicksE2E ticks and the worker takes its
\* notifications whenever it gets to
E2EWorker == CHOOSE w \in Workers : TRUE

NextE2E ==
  \/ registered = {} /\ RegisterThread(E2EWorker)
  \/ registered # {} /\ ~events_enabled_ /\ EnableEvents
  \/ events_enabled_ /\ callback_count = 0 /\ RegisteredCallback(1)
  \/ \E i \in Tasks :
        \/ TimerCheckStop(i) \/ TimerTickUpTo(i, MaxTicksE2E) \/ TimerGate(i)
        \/ TimerAcquire(i) \/ TimerDeliver(i) \/ TimerRelease(i)
  \/ SignalHandlerSummed(E2EWorker)

SpecE2E == Init /\ [][NextE2E]_vars

\* ================================================================ claims
\* The timekeeper task of the event source is running
Running == thread_ # 0 /\ tpc[thread_] \notin {"none", "exited"}

\* The timekeeper tasks that exist (created, not yet joined)
LiveTasks == {i \in Tasks : tpc[i] # "none"}

\* C1: whenever a RegisteredCallback / UnregisteredCallback call has returned
\* and every call so far passed the handler's callback count (0 at the start,
\* +1 per registration, -1 per deregistration), the timekeeper task is
\* running if and only if the count is >= 1, and with count 0 no task exists.
C1_RunningIffCallbacks ==
  (Alive /\ ctl_pc = "idle" /\ seq_ok) =>
     /\ (callback_count >= 1) <=> Running
     /\ (callback_count = 0) => LiveTasks = {}

\* A timekeeper was started, ticked and was stopped again by the count
\* going back to 0
C1_Witness ==
  /\ Alive /\ ctl_pc = "idle" /\ seq_ok
  /\ callback_count = 0 /\ thread_stop_ /\ nticks >= 1 /\ LiveTasks = {}

\* C2: at most one timekeeper task exists in every reachable state, and a
\* RegisteredCallback(1) made while thread_ is set ends in the fatal error
\* "Timer already running" and creates no task.
C2_SingleTimekeeper ==
  /\ [](Cardinality(LiveTasks) <= 1)
  /\ [][(RegisteredCallback(1) /\ thread_ # 0) =>
          (fatal' = "Timer already running" /\ tpc' = tpc /\ thread_' = thread_)]_vars

\* The second start ended the process with the one task in existence
C2_Witness ==
  fatal = "Timer already running" /\ Cardinality(LiveTasks) = 1

\* C3: the first GetTicksSinceLastCall of a thread returns 1, whatever the
\* counter holds.
C3_FirstCallReturnsOne ==
  (last_call.who # "none" /\ last_call.first) => ret = 1

\* A first call made with the counter at 0xFFFFFFFE
C3_Witness ==
  /\ last_call.who # "none" /\ last_call.first
  /\ current_tick_ = -2 /\ thread_last_tick[last_call.who] = -2 /\ ret = 1

\* C4: a call of a thread that follows an earlier call of the same thread
\* with no increment of the counter in between returns 0, the counter being
\* 0 included.
C4_RepeatedCallReturnsZero ==
  (last_call.who # "none" /\ ~last_call.first /\ last_call.since = 0) => ret = 0

\* C5: a call of a thread that follows an earlier call of the same thread
\* with k >= 1 increments of the counter in between returns k, also when the
\* counter wrapped in between.
C5_ReturnsAdvance ==
  (last_call.who # "none" /\ ~last_call.first /\ last_call.since >= 1) =>
     ret = last_call.since

\* C6: once DisableEvents() was called on a running timekeeper and until the
\* next EnableEvents(), the timekeeper makes no delivery attempt.
C6_NoDeliveryWhileDisabled ==
  [][\A i \in Tasks : TimerDeliver(i) => ~disabled]_vars

\* C7: EnableEvents and DisableEvents leave the registry, the counter, the
\* threads' last ticks, the timekeeper's handle, stop flag and position, the
\* lock and the workers as they were; and EnableEvents leaves the flag set,
\* so that the timekeeper delivers to the registry as it stands.
C7_ToggleFrame ==
  /\ [][(EnableEvents \/ DisableEvents) =>
          UNCHANGED <<threads_, current_tick_, thread_last_tick, thread_,
                      thread_stop_, tpc, it, lock_, wstate, wpc, pending,
                      fatal, registered>>]_vars
  /\ [][EnableEvents => events_enabled_']_vars

\* DisableEvents was called on a running timekeeper that had ticked, with a
\* worker registered and a worker's last tick set
C7_Witness ==
  /\ disabled /\ Running /\ nticks >= 1
  /\ threads_ # << >>
  /\ \E w \in Workers : thread_last_tick[w] # 0

\* C8: when a traversal of the registry ends, no worker that had exited when
\* the traversal began is left in the registry; the delivery attempt that
\* finds such a worker gone erases its entry, ends the process in no fatal
\* error and leaves the timekeeper in its loop.
C8_ExitedWorkerReaped ==
  /\ [][\A i \in Tasks : TimerRelease(i) =>
          (\A w \in dead_at_start : w \notin Range(threads_))]_vars
  /\ [][\A i \in Tasks :
          (TimerDeliver(i) /\ wstate[threads_[it[i]]] = "exited") =>
             /\ threads_' = Erase(threads_, it[i])
             /\ fatal' = "" /\ tpc'[i] = "deliver"]_vars

\* A worker that registered and exited is out of the registry, the traversal
\* over, the timekeeper back at the top of its loop
C8_Witness ==
  /\ Alive /\ Running /\ tpc[thread_] = "check"
  /\ \E w \in registered : wstate[w] = "exited" /\ w \notin Range(threads_)

\* C9: once Reset() called on a running timekeeper has returned, the handle
\* is cleared and no task exists; a RegisteredCallback(1) that follows raises
\* no "Timer already running" and, unless the system refuses the thread,
\* leaves a new task at the top of its loop with the stop flag clear; the
\* restarted task is running.
C9_ResetThenRestart ==
  /\ [](after_reset = "running" => (thread_ = 0 /\ LiveTasks = {} /\ ctl_pc = "idle"))
  /\ [][(after_reset = "running" /\ RegisteredCallback(1)) =>
          /\ fatal' # "Timer already running"
          /\ fatal' = "" => (thread_' # 0 /\ tpc'[thread_'] = "check" /\ ~thread_stop_')]_vars
  /\ []((after_reset = "restarted" /\ Alive) => (Running /\ ~thread_stop_))

\* The timekeeper started after the Reset has passed the test of the stop
\* flag and is about to tick, the one before it having ticked
C9_Witness ==
  /\ after_reset = "restarted" /\ Alive /\ Running
  /\ tpc[thread_] = "tick" /\ nticks >= 1

\* C10: once Reset() has returned, the event source is as constructed: no
\* timekeeper task, stop flag clear, events-enabled false.
C10_ResetRestoresConstructed ==
  (Alive /\ after_reset \in {"idle", "running"}) =>
     (thread_ = 0 /\ LiveTasks = {} /\ ~thread_stop_ /\ ~events_enabled_)

\* C11: in a run in which EnableEvents() has not been called, the timekeeper
\* makes no delivery attempt, whatever else was called, also while it is
\* running with threads registered.
C11_NoDeliveryBeforeEnable ==
  [][\A i \in Tasks : ~TimerDeliver(i)]_vars

\* C12: in the end-to-end run, after each GetTicksSinceLastCall a worker made
\* in its notification handler, the sum of the values returned to it so far
\* differs by at most one from the number of ticks the counter had counted
\* when that call read it.
C12_SumTracksTicks ==
  \A w \in Workers :
    read_at[w] >= 0 => (sum_ret[w] - read_at[w]) \in {-1, 0, 1}

\* Number of entries the registry holds for worker w
Entries(w) == Cardinality({k \in 1..Len(threads_) : threads_[k] = w})

\* C13: the registry never holds a thread more than once, however often the
\* thread called RegisterThread, and it holds a registered thread that is
\* still running exactly once.
C13_RegisteredOnce ==
  \A w \in Workers :
    /\ Entries(w) <= 1
    /\ (w \in registered /\ wstate[w] = "run") => Entries(w) = 1

\* The cap on the increments keeps the timekeeper from its next tick
TickCapped == \E i \in Tasks : tpc[i] = "tick" /\ nticks >= MaxTicks

\* C14: while a join is pending the stop flag is set, and the test of the
\* stop flag the timekeeper makes then ends its loop: it finishes the
\* iteration it is in and starts no other.  Under fair scheduling the join
\* completes, whatever the workers do with the registry lock meanwhile.
C14_StopTakesEffect ==
  /\ [](ctl_pc = "joining" => (thread_stop_ /\ thread_ # 0))
  /\ [][\A i \in Tasks :
          (TimerCheckStop(i) /\ ctl_pc = "joining") => tpc'[i] = "exited"]_vars
  /\ (ctl_pc = "joining" /\ ~TickCapped) ~> (ctl_pc = "idle" /\ thread_ = 0)

\* The timekeeper has exited on a stop request that found it in a traversal,
\* a worker being inside RegisterThread now
C14_Witness ==
  /\ ctl_pc = "joining" /\ tpc[thread_] = "exited" /\ nticks >= 1
  /\ \E w \in Workers : wpc[w] = "locked"

\* C15: during a traversal the attempts made so far followed by the entries
\* from the iterator on are the registry as the traversal found it, so when
\* the traversal ends every entry it found has had one attempt, in registry
\* order; an attempt on a running thread, failed or not, leaves the registry
\* as it is and the timekeeper in the traversal.
C15_EveryEntryOnce ==
  /\ [](\A i \in Tasks : tpc[i] = "deliver" =>
          tried \o SubSeq(threads_, it[i], Len(threads_)) = snap)
  /\ [][\A i \in Tasks : TimerRelease(i) => tried = snap]_vars
  /\ [][\A i \in Tasks :
          (TimerDeliver(i) /\ wstate[threads_[it[i]]] = "run") =>
             (threads_' = threads_ /\ tpc'[i] = "deliver" /\ fatal' = fatal)]_vars

\* A traversal of two entries is at its end, the first entry erased
C15_Witness ==
  \E i \in Tasks :
    /\ tpc[i] = "deliver" /\ it[i] > Len(threads_)
    /\ Len(snap) = 2 /\ tried = snap /\ Len(threads_) = 1
    /\ threads_[1] = snap[2] /\ snap[1] # snap[2]

\* C16: the counter holds the number of increments the timekeeper tasks have
\* made since the process started, so no call resets or changes it, across
\* a stop and restart included; it changes only in the step that takes a
\* task from the test of the stop flag to the test of the events-enabled
\* flag, by exactly one (wrapping from the largest value to the smallest),
\* and every pass of the loop goes through that step before anything else.
C16_CounterSingleWriter ==
  /\ [](current_tick_ = nticks)
  /\ [][current_tick_' # current_tick_ =>
          /\ \E i \in Tasks : tpc[i] = "tick" /\ tpc'[i] = "gate"
          /\ current_tick_' = IF current_tick_ = MaxInt32 THEN MinInt32
                                                         ELSE current_tick_ + 1
          /\ UNCHANGED <<threads_, lock_, events_enabled_, thread_, thread_stop_>>]_vars
  /\ [][\A i \in Tasks :
          /\ (tpc[i] = "check" /\ tpc'[i] # "check") => tpc'[i] \in {"tick", "exited"}
          /\ (tpc[i] = "tick" /\ tpc'[i] # "tick") =>
                (tpc'[i] = "gate" /\ current_tick_' # current_tick_)
          /\ (tpc'[i] = "gate" /\ tpc[i] # "gate") => tpc[i] = "tick"
          /\ (tpc'[i] = "acquire" /\ tpc[i] # "acquire") => tpc[i] = "gate"]_vars

\* A timekeeper started after a Reset is at the top of its loop, the counter
\* holding the ticks of the one before it
C16_Witness ==
  /\ after_reset = "restarted" /\ Running /\ tpc[thread_] = "check"
  /\ current_tick_ >= 1 /\ current_tick_ = nticks

\* C17: every thread that has called RegisterThread and has not exited is in
\* the registry; the registry loses an entry only in a delivery attempt of
\* the timekeeper on a thread that has exited, and then only that entry.
C17_LiveThreadsStayRegistered ==
  /\ [](\A w \in registered : wstate[w] = "run" => w \in Range(threads_))
  /\ [][(\E k \in 1..Len(threads_) :
            k > Len(threads_') \/ threads_'[k] # threads_[k]) =>
          \E i \in Tasks :
            /\ tpc[i] = "deliver" /\ it[i] <= Len(threads_)
            /\ wstate[threads_[it[i]]] = "exited"
            /\ threads_' = Erase(threads_, it[i])]_vars

\* Reset has stopped the timekeeper; a registered thread that runs is in the
\* registry, one that exited was reaped before
C17_Witness ==
  /\ after_reset = "running" /\ thread_ = 0
  /\ \E w \in registered : wstate[w] = "run" /\ w \in Range(threads_)
  /\ \E w \in registered : wstate[w] = "exited" /\ w \notin Range(threads_)

\* C18: a worker inside RegisterThread holds the lock and so does a
\* timekeeper inside its traversal, hence never both; the lock is the
\* timekeeper's in its traversal only, not while it sleeps or tests its
\* flags; the registry changes only by its lock holder, by the push_back of
\* the worker's own identifier at the end or by the erasure at the
\* timekeeper's iterator.  Under fair scheduling a worker inside
\* RegisterThread returns and the timekeeper gives the lock up again, unless
\* the process is ended by a fatal error.
C18_RegistryUnderLock ==
  /\ [](\A w \in Workers : wpc[w] = "locked" => lock_ = w)
  /\ [](\A i \in Tasks : tpc[i] = "deliver" => lock_ = TimerOwner)
  /\ [](lock_ = TimerOwner => \E i \in Tasks : tpc[i] = "deliver")
  /\ [][threads_' # threads_ =>
          \/ /\ lock_ \in Workers
             /\ wpc[lock_] = "locked" /\ wpc'[lock_] = "idle"
             /\ threads_' = Append(threads_, lock_)
          \/ /\ lock_ = TimerOwner
             /\ \E i \in Tasks : /\ tpc[i] = "deliver" /\ it[i] <= Len(threads_)
                                  /\ threads_' = Erase(threads_, it[i])]_vars
  /\ [][\A w \in Workers :
          (wpc[w] = "locked" /\ wpc'[w] = "idle") =>
             (threads_' = Append(threads_, w) /\ lock_' = NoOwner)]_vars
  /\ \A w \in Workers : (wpc[w] = "locked") ~> (wpc[w] = "idle" \/ ~Alive)
  /\ (lock_ = TimerOwner) ~> (lock_ = NoOwner \/ ~Alive)

\* The timekeeper is waiting for the lock that a worker holds inside a
\* second RegisterThread, the first registration being in the registry
C18_Witness ==
  \E w \in Workers :
    /\ wpc[w] = "locked" /\ lock_ = w /\ w \in Range(threads_)
    /\ \E i \in Tasks : tpc[i] = "acquire"

\* C19: a worker that runs with a notification pending can take it in every
\* state, whoever holds the registry lock, the worker itself inside
\* RegisterThread included; the call its handler makes leaves the registry,
\* the lock, the events-enabled flag, the timekeeper's handle, stop flag and
\* position, the counter, the workers' positions and the other threads'
\* last ticks as they were.
C19_GetTicksNeverBlocks ==
  /\ [](\A w \in Workers :
          (Alive /\ wstate[w] = "run" /\ pending[w]) => ENABLED SignalHandler(w))
  /\ [][\A w \in Workers : SignalHandler(w) =>
          /\ UNCHANGED <<threads_, lock_, events_enabled_, thread_, thread_stop_,
                         tpc, it, current_tick_, wpc, wstate>>
          /\ \A v \in Workers \ {w} :
                thread_last_tick'[v] = thread_last_tick[v]]_vars

\* In the first iteration of the timekeeper a worker has taken its
\* notification while the timekeeper was still in the traversal, the lock held
C19_Witness ==
  \E w \in Workers :
    /\ nticks = 1 /\ lock_ = TimerOwner
    /\ \E i \in Tasks : tpc[i] = "deliver"
    /\ last_call.who = w /\ read_at[w] = 1 /\ thread_last_tick[w] = 1
    /\ ~pending[w]

\* C20: a timekeeper task leaves its loop only in a test of the stop flag
\* that finds it set.  Under fair scheduling a running timekeeper whose stop
\* flag is clear goes on to its next increment of the counter (as long as
\* the run has increments left), unless a stop is requested or a fatal error
\* ends the process first.
C20_ExitsOnlyOnStop ==
  /\ [][\A i \in Tasks :
          (tpc[i] # "exited" /\ tpc'[i] = "exited") =>
             (tpc[i] = "check" /\ thread_stop_)]_vars
  /\ \A k \in 0..(MaxTicks - 1) :
        (Running /\ ~thread_stop_ /\ nticks = k)
           ~> (nticks > k \/ thread_stop_ \/ ~Alive)

\* The timekeeper has made an increment after the traversal that reaped the
\* last registered thread, with nothing left in the registry
C20_Witness ==
  /\ Alive /\ Running /\ ~thread_stop_
  /\ tpc[thread_] = "gate" /\ nticks = MaxTicks
  /\ registered # {} /\ threads_ = << >>
  /\ \A w \in registered : wstate[w] = "exited"
====
